---- MODULE Spec2Model ----
(***************************************************************************)
(* Model of library/excel_validator.py: the ExcelValidator that loads      *)
(* expected results from a CSV file or a spreadsheet and validates an      *)
(* XCCDF report against them; and of library/credential_manager.py: the    *)
(* CredentialManager that fetches the credentials of a machine from the    *)
(* backend it is configured with.                                          *)
(*                                                                         *)
(* Python strings that the code trims, upper-cases, lower-cases or         *)
(* compares are modelled as sequences of one-character strings, so that    *)
(* str.strip, str.upper and str.lower are computed character by character. *)
(* Column names, status words and operation names, which the code only     *)
(* compares literally, are TLA+ strings.                                   *)
(***************************************************************************)
EXTENDS Integers, Sequences, FiniteSets, TLC

VARIABLES rules, all_rules, validation_results, source, xml_content, call

VARIABLES backend, installed, environ, cred_call

\* the ExcelValidator and the calls made on it
validator_vars == <<rules, all_rules, validation_results, source, xml_content, call>>

\* the CredentialManager, the process it lives in and the calls made on it
manager_vars == <<backend, installed, environ, cred_call>>

vars == <<rules, all_rules, validation_results, source, xml_content, call,
          backend, installed, environ, cred_call>>

-----------------------------------------------------------------------------
(* Python str operations                                                   *)

LOWER == <<"a","b","c","d","e","f","g","h","i","j","k","l","m",
           "n","o","p","q","r","s","t","u","v","w","x","y","z">>

UPPER == <<"A","B","C","D","E","F","G","H","I","J","K","L","M",
           "N","O","P","Q","R","S","T","U","V","W","X","Y","Z">>

DIGITS == <<"0","1","2","3","4","5","6","7","8","9">>

IsSpace(c) == c \in {" ", "\t", "\n"}

\* place of c in the alphabet s, 0 when it is not there
Place(s, c) ==
    LET S == {i \in DOMAIN s : s[i] = c}
    IN  IF S = {} THEN 0 ELSE CHOOSE i \in S : TRUE

LowerChar(c) == LET i == Place(UPPER, c) IN IF i = 0 THEN c ELSE LOWER[i]

UpperChar(c) == LET i == Place(LOWER, c) IN IF i = 0 THEN c ELSE UPPER[i]

\* str.lower()
Lower(s) == [i \in DOMAIN s |-> LowerChar(s[i])]

\* str.upper()
Upper(s) == [i \in DOMAIN s |-> UpperChar(s[i])]

RECURSIVE LStrip(_)
LStrip(s) == IF s # <<>> /\ IsSpace(Head(s)) THEN LStrip(Tail(s)) ELSE s

RECURSIVE RStrip(_)
RStrip(s) ==
    IF s # <<>> /\ IsSpace(s[Len(s)]) THEN RStrip(SubSeq(s, 1, Len(s) - 1)) ELSE s

\* str.strip()
Strip(s) == RStrip(LStrip(s))

IsDigit(c) == Place(DIGITS, c) # 0

DigitValue(c) == Place(DIGITS, c) - 1

RECURSIVE DigitsValue(_, _)
DigitsValue(s, acc) ==
    IF s = <<>> THEN acc ELSE DigitsValue(Tail(s), 10 * acc + DigitValue(Head(s)))

\* whether int(s) accepts the text s: optional surrounding whitespace, an
\* optional sign, then one or more decimal digits
IntParses(s) ==
    LET t == Strip(s)
        d == IF t # <<>> /\ Head(t) \in {"+", "-"} THEN Tail(t) ELSE t
    IN  d # <<>> /\ \A i \in DOMAIN d : IsDigit(d[i])

\* int(s) for a text that IntParses accepts
IntOfStr(s) ==
    LET t == Strip(s)
        neg == t # <<>> /\ Head(t) = "-"
        d == IF t # <<>> /\ Head(t) \in {"+", "-"} THEN Tail(t) ELSE t
    IN  IF neg THEN 0 - DigitsValue(d, 0) ELSE DigitsValue(d, 0)

RECURSIVE NatToStr(_)
NatToStr(n) ==
    IF n < 10 THEN <<DIGITS[n + 1]>>
    ELSE NatToStr(n \div 10) \o <<DIGITS[(n % 10) + 1]>>

\* str(n) for an int
IntToStr(n) == IF n < 0 THEN <<"-">> \o NatToStr(0 - n) ELSE NatToStr(n)

-----------------------------------------------------------------------------
(* Cell values: what csv.DictReader and openpyxl hand to the loaders.      *)
(* t is the Python type of the value; n and s carry an int or a str.       *)

None == [t |-> "none", n |-> 0, s |-> <<>>]

IntCell(n) == [t |-> "int", n |-> n, s |-> <<>>]

StrCell(s) == [t |-> "str", n |-> 0, s |-> s]

\* str(value)
PyStr(v) ==
    CASE v.t = "none" -> <<"N","o","n","e">>
      [] v.t = "int" -> IntToStr(v.n)
      [] OTHER -> v.s

\* truth value of a cell: None, 0 and '' are false
Truthy(v) ==
    CASE v.t = "none" -> FALSE
      [] v.t = "int" -> v.n # 0
      [] OTHER -> v.s # <<>>

\* the exception int(value) raises, "" when it raises none
IntError(v) ==
    CASE v.t = "none" -> "TypeError"
      [] v.t = "int" -> ""
      [] OTHER -> IF IntParses(v.s) THEN "" ELSE "ValueError"

\* int(value) when IntError(value) = ""
PyInt(v) == IF v.t = "int" THEN v.n ELSE IntOfStr(v.s)

\* index of the last column named col (0 when there is none): both
\* csv.DictReader and dict(zip(headers, row)) let the last one win
LastIndex(header, col) ==
    LET S == {i \in DOMAIN header : header[i] = col}
    IN  IF S = {} THEN 0 ELSE CHOOSE i \in S : \A j \in S : j <= i

\* csv.DictReader: row[col] for a column the header names; a row shorter
\* than the header has None (restval) in the missing columns
CsvLookup(header, row, col) ==
    LET i == LastIndex(header, col)
    IN  IF i <= Len(row) THEN row[i] ELSE None

\* dict(zip(headers, row))[col] for a row as wide as the header
Lookup(header, row, col) == row[LastIndex(header, col)]

-----------------------------------------------------------------------------
(* Loading the rules                                                       *)

\* the exception the dict literal of load_rules_from_csv raises for a row,
\* in the order Python evaluates its entries; "" when it raises none
CsvRowError(header, row) ==
    IF LastIndex(header, "NUMBER") = 0 THEN "KeyError"
    ELSE IF IntError(CsvLookup(header, row, "NUMBER")) # ""
    THEN IntError(CsvLookup(header, row, "NUMBER"))
    ELSE IF LastIndex(header, "RULE_ID") = 0 THEN "KeyError"
    ELSE IF CsvLookup(header, row, "RULE_ID").t = "none" THEN "AttributeError"
    ELSE IF LastIndex(header, "EXPECTED_RESULT") = 0 THEN "KeyError"
    ELSE IF CsvLookup(header, row, "EXPECTED_RESULT").t = "none" THEN "AttributeError"
    ELSE IF /\ LastIndex(header, "DESCRIPTION") # 0
            /\ CsvLookup(header, row, "DESCRIPTION").t = "none" THEN "AttributeError"
    ELSE IF /\ LastIndex(header, "PROFILE") # 0
            /\ CsvLookup(header, row, "PROFILE").t = "none" THEN "AttributeError"
    ELSE ""

\* the rule dictionary load_rules_from_csv builds from a row
CsvRowRule(header, row) ==
    [number |-> PyInt(CsvLookup(header, row, "NUMBER")),
     rule_id |-> Strip(CsvLookup(header, row, "RULE_ID").s),
     expected_result |-> Upper(Strip(CsvLookup(header, row, "EXPECTED_RESULT").s)),
     description |-> IF LastIndex(header, "DESCRIPTION") # 0
                     THEN Strip(CsvLookup(header, row, "DESCRIPTION").s) ELSE <<>>,
     profile |-> IF LastIndex(header, "PROFILE") # 0
                 THEN Strip(CsvLookup(header, row, "PROFILE").s) ELSE <<>>]

\* profile_filter is None or rule['profile'].upper() == profile_filter.upper()
ProfileMatches(rule, profile_filter) ==
    profile_filter.t = "none" \/ Upper(rule.profile) = Upper(profile_filter.s)

\* the for loop of load_rules_from_csv from row i on, acc the rules so far;
\* csv.DictReader does not yield a blank line (a row with no field)
RECURSIVE CsvLoop(_, _, _, _, _)
CsvLoop(header, rows, profile_filter, i, acc) ==
    IF i > Len(rows) THEN [error |-> "", rules |-> acc]
    ELSE IF rows[i] = <<>>
    THEN CsvLoop(header, rows, profile_filter, i + 1, acc)
    ELSE IF CsvRowError(header, rows[i]) # ""
    THEN [error |-> CsvRowError(header, rows[i]), rules |-> <<>>]
    ELSE LET rule == CsvRowRule(header, rows[i])
         IN  CsvLoop(header, rows, profile_filter, i + 1,
                     IF ProfileMatches(rule, profile_filter)
                     THEN Append(acc, rule) ELSE acc)

\* load_rules_from_csv up to its assignments: the exception raised ("" for
\* none) and the list built
CsvLoad(src, profile_filter) ==
    IF ~src.exists THEN [error |-> "FileNotFoundError", rules |-> <<>>]
    ELSE CsvLoop(src.header, src.rows, profile_filter, 1, <<>>)

required_headers == <<"NUMBER", "RULE_ID", "EXPECTED_RESULT">>

\* if not row[0]: continue
ExcelSkipsRow(header, row) == ~Truthy(row[1])

\* the exception the dict literal of load_rules_from_excel raises for a row
ExcelRowError(header, row) == IntError(Lookup(header, row, "NUMBER"))

\* .get(col, ''): the cell when the header names the column, else ''
GetOrEmpty(header, row, col) ==
    IF LastIndex(header, col) # 0 THEN Lookup(header, row, col) ELSE StrCell(<<>>)

\* the rule dictionary load_rules_from_excel builds from a row
ExcelRowRule(header, row) ==
    [number |-> PyInt(Lookup(header, row, "NUMBER")),
     rule_id |-> Strip(PyStr(Lookup(header, row, "RULE_ID"))),
     expected_result |-> Upper(Strip(PyStr(Lookup(header, row, "EXPECTED_RESULT")))),
     description |-> Strip(PyStr(GetOrEmpty(header, row, "DESCRIPTION"))),
     profile |-> Strip(PyStr(GetOrEmpty(header, row, "PROFILE")))]

\* the for loop of load_rules_from_excel from row i on
RECURSIVE ExcelLoop(_, _, _, _, _)
ExcelLoop(header, rows, profile_filter, i, acc) ==
    IF i > Len(rows) THEN [error |-> "", rules |-> acc]
    ELSE IF ExcelSkipsRow(header, rows[i])
    THEN ExcelLoop(header, rows, profile_filter, i + 1, acc)
    ELSE IF ExcelRowError(header, rows[i]) # ""
    THEN [error |-> ExcelRowError(header, rows[i]), rules |-> <<>>]
    ELSE LET rule == ExcelRowRule(header, rows[i])
         IN  ExcelLoop(header, rows, profile_filter, i + 1,
                       IF ProfileMatches(rule, profile_filter)
                       THEN Append(acc, rule) ELSE acc)

\* load_rules_from_excel up to its assignments
ExcelLoad(src, profile_filter) ==
    IF ~src.exists THEN [error |-> "FileNotFoundError", rules |-> <<>>]
    ELSE IF \E k \in DOMAIN required_headers :
                LastIndex(src.header, required_headers[k]) = 0
    THEN [error |-> "ValueError", rules |-> <<>>]
    ELSE ExcelLoop(src.header, src.rows, profile_filter, 1, <<>>)

-----------------------------------------------------------------------------
(* Validating a report                                                     *)
(*                                                                         *)
(* A report text is either not well-formed XML or the text of a tree.  Of  *)
(* the tree the model keeps what validate_xccdf_report reads: elems, the   *)
(* rule-result elements (of any namespace) below the root in document      *)
(* order, each with its idref attribute and results, the texts of the      *)
(* result elements (of any namespace) below it in document order.  The     *)
(* text of an element without character data is None.                      *)

Str_NOT_FOUND == <<"N","O","T"," ","F","O","U","N","D">>

Str_UNKNOWN == <<"U","N","K","N","O","W","N">>

RESULT_MAPPING ==
    << << <<"p","a","s","s">>, <<"C","O","M","P","L","I","A","N","T">> >>,
       << <<"f","a","i","l">>, <<"N","O","T"," ","C","O","M","P","L","I","A","N","T">> >>,
       << <<"n","o","t","a","p","p","l","i","c","a","b","l","e">>,
          <<"N","O","T"," ","A","P","P","L","I","C","A","B","L","E">> >>,
       << <<"n","o","t","c","h","e","c","k","e","d">>,
          <<"N","O","T"," ","C","H","E","C","K","E","D">> >>,
       << <<"n","o","t","s","e","l","e","c","t","e","d">>,
          <<"N","O","T"," ","S","E","L","E","C","T","E","D">> >>,
       << <<"i","n","f","o","r","m","a","t","i","o","n","a","l">>,
          <<"I","N","F","O","R","M","A","T","I","O","N","A","L">> >>,
       << <<"e","r","r","o","r">>, <<"E","R","R","O","R">> >>,
       << <<"u","n","k","n","o","w","n">>, <<"U","N","K","N","O","W","N">> >>,
       << <<"f","i","x","e","d">>, <<"F","I","X","E","D">> >> >>

\* RESULT_MAPPING.get(key, default)
MappingGet(key, default) ==
    IF \E k \in DOMAIN RESULT_MAPPING : RESULT_MAPPING[k][1] = key
    THEN RESULT_MAPPING[CHOOSE k \in DOMAIN RESULT_MAPPING : RESULT_MAPPING[k][1] = key][2]
    ELSE default

\* Variant of ParseFails for a parser that accepts every text.
ParseFails_Never(xml) == FALSE

\* ET.fromstring(xml_content) raises ParseError
ParseFails(xml) == ~xml.wellformed

\* root.find(".//{*}rule-result[@idref='<rule_id>']"): the place in elems of
\* the first rule-result whose idref is rule_id, 0 for None
FindRuleResult(root, rule_id) ==
    LET S == {k \in DOMAIN root.elems : root.elems[k].idref = rule_id}
    IN  IF S = {} THEN 0 ELSE CHOOSE k \in S : \A j \in S : k <= j

\* rule_result.find('.//{*}result') is None
ResultElemMissing(rule_result) == rule_result.results = <<>>

\* result_elem.text of the first result element
ResultText(rule_result) == rule_result.results[1]

\* Variant of MapResult that looks the raw text up, without lower-casing it.
MapResult_NoLower(text) == MappingGet(text, Upper(text))

\* xccdf_result = result_elem.text.lower();
\* RESULT_MAPPING.get(xccdf_result, xccdf_result.upper())
MapResult(text) == MappingGet(Lower(text), Upper(Lower(text)))

\* actual_result of a rule whose rule-result was found
ActualResult(rule_result) ==
    IF ResultElemMissing(rule_result) THEN Str_UNKNOWN
    ELSE MapResult(ResultText(rule_result).s)

\* The rule id is pasted between single quotes into the path expression.
\* ElementPath reads a quoted literal up to the next single quote, so an id
\* holding one single quote leaves a predicate it rejects (SyntaxError).
PredicateInvalid(rule_id) == \E i \in DOMAIN rule_id : rule_id[i] = "'"

\* the exception one pass of the for loop raises, "" when it raises none:
\* root.find rejects the path, or result_elem.text is None and has no lower()
RuleError(rule, root) ==
    IF PredicateInvalid(rule.rule_id) THEN "SyntaxError"
    ELSE LET k == FindRuleResult(root, rule.rule_id)
         IN  IF /\ k # 0
                /\ ~ResultElemMissing(root.elems[k])
                /\ ResultText(root.elems[k]).t = "none"
             THEN "AttributeError" ELSE ""

\* Variant of NotFoundResult that compares 'NOT FOUND' with the expected
\* result, as the found branch does.
NotFoundResult_Compared(rule) ==
    [number |-> rule.number, rule_id |-> rule.rule_id,
     description |-> rule.description, expected |-> rule.expected_result,
     actual |-> Str_NOT_FOUND,
     status |-> IF rule.expected_result = Str_NOT_FOUND THEN "PASS" ELSE "FAIL",
     message |-> [text |-> "Rule not found in XCCDF report",
                  expected |-> <<>>, actual |-> <<>>]]

NotFoundResult(rule) ==
    [number |-> rule.number, rule_id |-> rule.rule_id,
     description |-> rule.description, expected |-> rule.expected_result,
     actual |-> Str_NOT_FOUND, status |-> "FAIL",
     message |-> [text |-> "Rule not found in XCCDF report",
                  expected |-> <<>>, actual |-> <<>>]]

\* Variant of FoundStatus with the comparison inverted.
FoundStatus_Inverted(actual_result, expected) ==
    IF actual_result # expected THEN "PASS" ELSE "FAIL"

FoundStatus(actual_result, expected) ==
    IF actual_result = expected THEN "PASS" ELSE "FAIL"

\* Variant of FoundMessage that reports a mismatch with 'NOT FOUND' as a rule
\* that was not found.
FoundMessage_ByActual(actual_result, expected) ==
    IF actual_result = expected
    THEN [text |-> "Match", expected |-> <<>>, actual |-> <<>>]
    ELSE IF actual_result = Str_NOT_FOUND
    THEN [text |-> "Rule not found in XCCDF report", expected |-> <<>>, actual |-> <<>>]
    ELSE [text |-> "Mismatch: Expected {expected}, Got {actual_result}",
          expected |-> expected, actual |-> actual_result]

FoundMessage(actual_result, expected) ==
    IF actual_result = expected
    THEN [text |-> "Match", expected |-> <<>>, actual |-> <<>>]
    ELSE [text |-> "Mismatch: Expected {expected}, Got {actual_result}",
          expected |-> expected, actual |-> actual_result]

FoundResult(rule, rule_result) ==
    LET actual_result == ActualResult(rule_result)
    IN  [number |-> rule.number, rule_id |-> rule.rule_id,
         description |-> rule.description, expected |-> rule.expected_result,
         actual |-> actual_result,
         status |-> FoundStatus(actual_result, rule.expected_result),
         message |-> FoundMessage(actual_result, rule.expected_result)]

\* the result dictionary of one pass of the for loop
RuleResult(rule, root) ==
    LET k == FindRuleResult(root, rule.rule_id)
    IN  IF k = 0 THEN NotFoundResult(rule) ELSE FoundResult(rule, root.elems[k])

\* passed += 1 happens in the branch that sets status to 'PASS'
PassedAfter(passed, rule, root) ==
    IF /\ FindRuleResult(root, rule.rule_id) # 0
       /\ RuleResult(rule, root).status = "PASS"
    THEN passed + 1 ELSE passed

\* Variant of FailedAfter without the failed += 1 of the not-found branch.
FailedAfter_MismatchOnly(failed, rule, root) ==
    IF /\ FindRuleResult(root, rule.rule_id) # 0
       /\ RuleResult(rule, root).status = "FAIL"
    THEN failed + 1 ELSE failed

\* failed += 1 happens in the not-found branch and in the mismatch branch
FailedAfter(failed, rule, root) ==
    IF \/ FindRuleResult(root, rule.rule_id) = 0
       \/ RuleResult(rule, root).status = "FAIL"
    THEN failed + 1 ELSE failed

\* Variant of ValidateLoop that inserts each result at the front of the list.
RECURSIVE ValidateLoop_Prepend(_, _, _, _, _, _)
ValidateLoop_Prepend(rs, root, i, passed, failed, results) ==
    IF i > Len(rs)
    THEN [error |-> "", passed |-> passed, failed |-> failed, results |-> results]
    ELSE IF RuleError(rs[i], root) # ""
    THEN [error |-> RuleError(rs[i], root), passed |-> 0, failed |-> 0,
          results |-> <<>>]
    ELSE ValidateLoop_Prepend(rs, root, i + 1,
                              PassedAfter(passed, rs[i], root),
                              FailedAfter(failed, rs[i], root),
                              <<RuleResult(rs[i], root)>> \o results)

\* the for loop of validate_xccdf_report from rule i on
RECURSIVE ValidateLoop(_, _, _, _, _, _)
ValidateLoop(rs, root, i, passed, failed, results) ==
    IF i > Len(rs)
    THEN [error |-> "", passed |-> passed, failed |-> failed, results |-> results]
    ELSE IF RuleError(rs[i], root) # ""
    THEN [error |-> RuleError(rs[i], root), passed |-> 0, failed |-> 0,
          results |-> <<>>]
    ELSE ValidateLoop(rs, root, i + 1,
                      PassedAfter(passed, rs[i], root),
                      FailedAfter(failed, rs[i], root),
                      Append(results, RuleResult(rs[i], root)))

\* Variant of InitialResults that starts from the retained list.
InitialResults_Retained == validation_results

\* results = [] before the loop
InitialResults == <<>>

\* Variant of Validate that parses the report before it looks at the rules.
Validate_ParseFirst(rs, xml) ==
    IF ParseFails(xml)
    THEN [error |-> "ParseError", passed |-> 0, failed |-> 0, results |-> <<>>]
    ELSE IF rs = <<>>
    THEN [error |-> "ValueError", passed |-> 0, failed |-> 0, results |-> <<>>]
    ELSE ValidateLoop(rs, xml, 1, 0, 0, InitialResults)

\* validate_xccdf_report up to its assignment: the exception raised ("" for
\* none) and the tuple returned
Validate(rs, xml) ==
    IF rs = <<>>
    THEN [error |-> "ValueError", passed |-> 0, failed |-> 0, results |-> <<>>]
    ELSE IF ParseFails(xml)
    THEN [error |-> "ParseError", passed |-> 0, failed |-> 0, results |-> <<>>]
    ELSE ValidateLoop(rs, xml, 1, 0, 0, InitialResults)

-----------------------------------------------------------------------------
(* The derived queries                                                     *)

RECURSIVE SelectStatus(_, _)
SelectStatus(results, status) ==
    IF results = <<>> THEN <<>>
    ELSE IF Head(results).status = status
    THEN <<Head(results)>> \o SelectStatus(Tail(results), status)
    ELSE SelectStatus(Tail(results), status)

\* Variant of FailedRules without the status test.
FailedRules_Unfiltered(results) == results

\* [r for r in self.validation_results if r['status'] == 'FAIL']
FailedRules(results) == SelectStatus(results, "FAIL")

\* [r for r in self.validation_results if r['status'] == 'PASS']
PassedRules(results) == SelectStatus(results, "PASS")

\* result['description'][:30]
DescriptionWidth == 30

Truncate(s, n) == SubSeq(s, 1, IF Len(s) < n THEN Len(s) ELSE n)

NoSummary ==
    [text |-> "", total |-> 0, passed |-> 0, failed |-> 0, rate |-> 0, lines |-> <<>>]

\* passed/total*100 with one decimal digit, in tenths of a percent
SuccessRate(passed, total) == (2000 * passed + total) \div (2 * total)

SummaryLine(result) ==
    [number |-> IntToStr(result.number), status |-> result.status,
     expected |-> result.expected, actual |-> result.actual,
     description |-> Truncate(result.description, DescriptionWidth)]

\* Variant of ValidationSummary without the test for an empty list.
ValidationSummary_Unguarded(results) ==
    LET total == Len(results)
        passed == Len(PassedRules(results))
    IN  [text |-> "VALIDATION SUMMARY", total |-> total, passed |-> passed,
         failed |-> total - passed,
         rate |-> IF total = 0 THEN 0 ELSE SuccessRate(passed, total),
         lines |-> [i \in DOMAIN results |-> SummaryLine(results[i])]]

\* get_validation_summary
ValidationSummary(results) ==
    IF results = <<>>
    THEN [NoSummary EXCEPT !.text = "No validation results available"]
    ELSE LET total == Len(results)
             passed == Len(PassedRules(results))
         IN  [text |-> "VALIDATION SUMMARY", total |-> total, passed |-> passed,
              failed |-> total - passed, rate |-> SuccessRate(passed, total),
              lines |-> [i \in DOMAIN results |-> SummaryLine(results[i])]]

-----------------------------------------------------------------------------
(* The validator: state and calls                                          *)
(*                                                                         *)
(* rules, all_rules and validation_results are the fields of the           *)
(* ExcelValidator.  source is the file the last load call was given,       *)
(* xml_content the report text the last validate call was given, and call  *)
(* records the last call: its name, the exception it raised ("" for none)  *)
(* and what it returned; repeated tells that a validate call was given the *)
(* text of the validate call right before it.                              *)

NoCall ==
    [op |-> "__init__", error |-> "", repeated |-> FALSE, profile_filter |-> None,
     rules |-> <<>>, passed |-> 0, failed |-> 0, results |-> <<>>,
     summary |-> NoSummary]

NoSource == [fmt |-> "", exists |-> FALSE, header |-> <<>>, rows |-> <<>>]

NoReport == [wellformed |-> FALSE, elems |-> <<>>]

\* self.all_rules = rules if profile_filter is None else self.all_rules
AllRulesAfterLoad(loaded, profile_filter) ==
    IF profile_filter.t = "none" THEN loaded ELSE all_rules

\* Variant of FinishLoad that forgets the retained verdicts when new rules
\* are loaded.
FinishLoad_Clearing(op, src, profile_filter, r) ==
    /\ source' = src
    /\ UNCHANGED <<xml_content, manager_vars>>
    /\ IF r.error = ""
       THEN /\ rules' = r.rules
            /\ all_rules' = AllRulesAfterLoad(r.rules, profile_filter)
            /\ validation_results' = <<>>
            /\ call' = [NoCall EXCEPT !.op = op, !.profile_filter = profile_filter,
                                      !.rules = r.rules]
       ELSE /\ UNCHANGED <<rules, all_rules, validation_results>>
            /\ call' = [NoCall EXCEPT !.op = op, !.profile_filter = profile_filter,
                                      !.error = r.error]

\* Variant of FinishLoad that appends the list built to self.rules.
FinishLoad_Appending(op, src, profile_filter, r) ==
    /\ source' = src
    /\ UNCHANGED <<validation_results, xml_content, manager_vars>>
    /\ IF r.error = ""
       THEN /\ rules' = rules \o r.rules
            /\ all_rules' = AllRulesAfterLoad(r.rules, profile_filter)
            /\ call' = [NoCall EXCEPT !.op = op, !.profile_filter = profile_filter,
                                      !.rules = r.rules]
       ELSE /\ UNCHANGED <<rules, all_rules>>
            /\ call' = [NoCall EXCEPT !.op = op, !.profile_filter = profile_filter,
                                      !.error = r.error]

\* the assignments and the return at the end of a load, or the exception
\* that leaves the validator as it was
FinishLoad(op, src, profile_filter, r) ==
    /\ source' = src
    /\ UNCHANGED <<validation_results, xml_content, manager_vars>>
    /\ IF r.error = ""
       THEN /\ rules' = r.rules
            /\ all_rules' = AllRulesAfterLoad(r.rules, profile_filter)
            /\ call' = [NoCall EXCEPT !.op = op, !.profile_filter = profile_filter,
                                      !.rules = r.rules]
       ELSE /\ UNCHANGED <<rules, all_rules>>
            /\ call' = [NoCall EXCEPT !.op = op, !.profile_filter = profile_filter,
                                      !.error = r.error]

LoadRulesFromCsv(src, profile_filter) ==
    /\ src.fmt = "csv"
    /\ \E r \in {CsvLoad(src, profile_filter)} :
          FinishLoad("load_rules_from_csv", src, profile_filter, r)

LoadRulesFromExcel(src, profile_filter) ==
    /\ src.fmt = "xlsx"
    /\ \E r \in {ExcelLoad(src, profile_filter)} :
          FinishLoad("load_rules_from_excel", src, profile_filter, r)

ValidateXccdfReport(xml) ==
    \E r \in {Validate(rules, xml)} :
    LET again == call.op = "validate_xccdf_report" /\ xml_content = xml
    IN  /\ xml_content' = xml
        /\ UNCHANGED <<rules, all_rules, source, manager_vars>>
        /\ IF r.error = ""
           THEN /\ validation_results' = r.results
                /\ call' = [NoCall EXCEPT !.op = "validate_xccdf_report",
                                          !.repeated = again,
                                          !.passed = r.passed, !.failed = r.failed,
                                          !.results = r.results]
           ELSE /\ UNCHANGED validation_results
                /\ call' = [NoCall EXCEPT !.op = "validate_xccdf_report",
                                          !.repeated = again, !.error = r.error]

GetValidationSummary ==
    /\ call' = [NoCall EXCEPT !.op = "get_validation_summary",
                              !.summary = ValidationSummary(validation_results)]
    /\ UNCHANGED <<rules, all_rules, validation_results, source, xml_content,
                   manager_vars>>

GetFailedRules ==
    /\ call' = [NoCall EXCEPT !.op = "get_failed_rules",
                              !.results = FailedRules(validation_results)]
    /\ UNCHANGED <<rules, all_rules, validation_results, source, xml_content,
                   manager_vars>>

GetPassedRules ==
    /\ call' = [NoCall EXCEPT !.op = "get_passed_rules",
                              !.results = PassedRules(validation_results)]
    /\ UNCHANGED <<rules, all_rules, validation_results, source, xml_content,
                   manager_vars>>

\* __init__
Constructed ==
    /\ rules = <<>>
    /\ all_rules = <<>>
    /\ validation_results = <<>>
    /\ call = NoCall

-----------------------------------------------------------------------------
(* The credential manager                                                  *)
(*                                                                         *)
(* backend is the field of the CredentialManager.  installed is the set of *)
(* optional client libraries that can be imported in the process and       *)
(* environ what the code reads of os.environ: the value of CRED_BACKEND,   *)
(* whether VAULT_TOKEN and ENCRYPTION_KEY have a value, and which of the   *)
(* machine's own (specific) and the generic IP, USERNAME and PASSWORD      *)
(* variables have one.  cred_call records the argument the manager was     *)
(* constructed with and the last call: its name, the retrieval routine it  *)
(* ran, the exception raised ("" for none) and where each value of the     *)
(* triple returned came from.  Backend names are only compared literally   *)
(* and are TLA+ strings.                                                   *)

\* an optional text: None, or a str
Absent == [given |-> FALSE, name |-> ""]

Text(name) == [given |-> TRUE, name |-> name]

\* os.getenv(name, default), value being what the environment has for name
Getenv(value, default) == IF value.given THEN value.name ELSE default

\* try: import boto3 ... HAS_AWS = True / except ImportError: HAS_AWS = False
HAS_AWS == "boto3" \in installed

\* try: import hvac; HAS_VAULT = False / except ImportError: HAS_VAULT = False
HAS_VAULT == IF "hvac" \in installed THEN FALSE ELSE FALSE

\* try: from cryptography.fernet import Fernet ... HAS_CRYPTO = True / except
HAS_CRYPTO == "cryptography" \in installed

\* backend or os.getenv('CRED_BACKEND', 'env'): None and '' are false
ConfiguredBackend(param) ==
    IF param.given /\ param.name # "" THEN param.name
    ELSE Getenv(environ.CRED_BACKEND, "env")

\* the if/elif chain of get_vm_credentials: the routine it calls, "" when it
\* reaches the else branch
Dispatch(b) ==
    IF b = "env" THEN "_get_from_env"
    ELSE IF b = "aws" /\ HAS_AWS THEN "_get_from_aws"
    ELSE IF b = "vault" /\ HAS_VAULT THEN "_get_from_vault"
    ELSE IF b = "encrypted" /\ HAS_CRYPTO THEN "_get_from_encrypted_file"
    ELSE IF b = "json" THEN "_get_from_json"
    ELSE ""

NoCredentials == [ip |-> "", username |-> "", password |-> ""]

\* a triple read from a secret store or a credentials file
Stored == [ip |-> "stored", username |-> "stored", password |-> "stored"]

Raises(error) == [error |-> error, credentials |-> NoCredentials]

Returns(credentials) == [error |-> "", credentials |-> credentials]

\* os.getenv of one of the machine's own variables, then `value or
\* os.getenv(generic, default)`: where the value comes from, "" for none
FromEnv(name, complete, default) ==
    IF name \in environ.specific THEN "specific"
    ELSE IF complete THEN ""
    ELSE IF name \in environ.generic THEN "generic"
    ELSE default

\* _get_from_env
GetFromEnv ==
    LET complete == {"IP", "USERNAME", "PASSWORD"} \subseteq environ.specific
        ip == FromEnv("IP", complete, "")
        username == FromEnv("USERNAME", complete, "root")
        password == FromEnv("PASSWORD", complete, "")
    IN  IF ip # "" /\ username # "" /\ password # ""
        THEN {Returns([ip |-> ip, username |-> username, password |-> password])}
        ELSE {Raises("ValueError: Missing environment variables")}

\* _get_from_aws: what the call ends with depends on the secret store
GetFromAws ==
    {Returns(Stored), Raises("ValueError: Secret not found in AWS"),
     Raises("ClientError")}

\* _get_from_vault
GetFromVault ==
    IF ~environ.VAULT_TOKEN
    THEN {Raises("ValueError: VAULT_TOKEN environment variable not set")}
    ELSE {Returns(Stored), Raises("ValueError: Vault authentication failed"),
          Raises("ValueError: Failed to retrieve secret from Vault")}

\* _get_from_encrypted_file
GetFromEncryptedFile ==
    IF ~environ.ENCRYPTION_KEY
    THEN {Raises("ValueError: ENCRYPTION_KEY environment variable not set")}
    ELSE {Returns(Stored),
          Raises("ValueError: Encrypted credentials file not found"),
          Raises("InvalidToken"),
          Raises("ValueError: Credential path not found in encrypted file")}

\* _get_from_json
GetFromJson ==
    {Returns(Stored), Raises("ValueError: Credentials JSON file not found"),
     Raises("ValueError: Credential path not found in JSON file")}

\* the ways get_vm_credentials can end once the chain has chosen
Outcomes(routine) ==
    CASE routine = "_get_from_env" -> GetFromEnv
      [] routine = "_get_from_aws" -> GetFromAws
      [] routine = "_get_from_vault" -> GetFromVault
      [] routine = "_get_from_encrypted_file" -> GetFromEncryptedFile
      [] routine = "_get_from_json" -> GetFromJson
      [] OTHER -> {Raises("ValueError: Unsupported backend")}

NoCredCall ==
    [op |-> "", backend_param |-> Absent, routine |-> "", error |-> "",
     credentials |-> NoCredentials]

NoEnviron ==
    [CRED_BACKEND |-> Absent, VAULT_TOKEN |-> FALSE, ENCRYPTION_KEY |-> FALSE,
     specific |-> {}, generic |-> {}]

\* no CredentialManager is in use
NoManager ==
    /\ backend = ""
    /\ installed = {}
    /\ environ = NoEnviron
    /\ cred_call = NoCredCall

\* CredentialManager.__init__
CredentialManagerInit(param) ==
    /\ backend' = ConfiguredBackend(param)
    /\ cred_call' = [NoCredCall EXCEPT !.op = "__init__", !.backend_param = param]
    /\ UNCHANGED <<installed, environ, validator_vars>>

\* CredentialManager.get_vm_credentials
GetVmCredentials ==
    /\ cred_call.op # ""
    /\ \E r \in Outcomes(Dispatch(backend)) :
          cred_call' = [op |-> "get_vm_credentials",
                        backend_param |-> cred_call.backend_param,
                        routine |-> Dispatch(backend),
                        error |-> r.error, credentials |-> r.credentials]
    /\ UNCHANGED <<backend, installed, environ, validator_vars>>

-----------------------------------------------------------------------------
(* Inputs                                                                  *)
(*                                                                         *)
(* A table row is written once, as the cells a spreadsheet holds under     *)
(* each column name; TableRow lays it out under a header, and for a CSV    *)
(* file writes each cell as the text of its field (an empty cell as the    *)
(* empty field).                                                           *)

MaxRows == 2

MaxElems == 2

CsvField(v) == StrCell(IF v.t = "none" THEN <<>> ELSE PyStr(v))

TableRow(fmt, header, cells) ==
    [i \in DOMAIN header |->
        IF fmt = "csv" THEN CsvField(cells[header[i]]) ELSE cells[header[i]]]

Table(fmt, header, rowcells) ==
    [fmt |-> fmt, exists |-> TRUE, header |-> header,
     rows |-> [i \in DOMAIN rowcells |-> TableRow(fmt, header, rowcells[i])]]

MissingFile(fmt) == [NoSource EXCEPT !.fmt = fmt]

SeqsUpTo(S, n) == UNION {[1..m -> S] : m \in 0..n}

HeaderFull == <<"NUMBER", "RULE_ID", "EXPECTED_RESULT", "DESCRIPTION", "PROFILE">>

HeaderPlain == <<"NUMBER", "RULE_ID", "EXPECTED_RESULT">>

HeaderProfileFirst == <<"PROFILE", "NUMBER", "RULE_ID", "EXPECTED_RESULT">>

HeaderNoRuleId == <<"NUMBER", "EXPECTED_RESULT", "PROFILE">>

RowR1 ==
    [NUMBER |-> IntCell(1), RULE_ID |-> StrCell(<<" ","r","1"," ">>),
     EXPECTED_RESULT |-> StrCell(<<"c","o","m","p","l","i","a","n","t">>),
     DESCRIPTION |-> StrCell(<<"f","i","r","s","t">>), PROFILE |-> StrCell(<<"c","a","t","_","i">>)]

RowR2 ==
    [NUMBER |-> IntCell(2), RULE_ID |-> StrCell(<<"r","2">>),
     EXPECTED_RESULT |-> StrCell(<<"N","o","t"," ","F","o","u","n","d"," ">>),
     DESCRIPTION |-> None, PROFILE |-> None]

RowR3 ==
    [NUMBER |-> StrCell(<<" ","3">>), RULE_ID |-> StrCell(<<"r","3">>),
     EXPECTED_RESULT |-> StrCell(<<"U","N","K","N","O","W","N">>),
     DESCRIPTION |-> StrCell(<<" ","t","h","i","r","d"," ">>), PROFILE |-> StrCell(<<"C","A","T","_","I","I">>)]

RowBlank ==
    [NUMBER |-> None, RULE_ID |-> None,
     EXPECTED_RESULT |-> None,
     DESCRIPTION |-> None, PROFILE |-> None]

RowBadNumber ==
    [NUMBER |-> StrCell(<<"x">>), RULE_ID |-> StrCell(<<"r","4">>),
     EXPECTED_RESULT |-> StrCell(<<"f","i","x","e","d">>),
     DESCRIPTION |-> StrCell(<<>>), PROFILE |-> StrCell(<<"c","a","t","_","i">>)]

RowZero ==
    [NUMBER |-> IntCell(0), RULE_ID |-> StrCell(<<"r","0">>),
     EXPECTED_RESULT |-> StrCell(<<"e","r","r","o","r">>),
     DESCRIPTION |-> StrCell(<<"z","e","r","o","t","h">>), PROFILE |-> StrCell(<<"C","A","T","_","I">>)]

FilterCatI == StrCell(<<"C","a","t","_","I">>)

FilterAbsent == StrCell(<<"c","a","t","_","i","x">>)

Elem(idref, results) == [idref |-> idref, results |-> results]

Report(elems) == [wellformed |-> TRUE, elems |-> elems]

\* a text that is no XML document
Malformed == NoReport

Id_r1 == <<"r","1">>

Id_r2 == <<"r","2">>

Id_R1 == <<"R","1">>

ElemR1Pass == Elem(Id_r1, <<StrCell(<<"p","a","s","s">>)>>)

ElemR1NotFoundText == Elem(Id_r1, <<StrCell(<<"n","o","t"," ","f","o","u","n","d">>)>>)

ElemR2NoResult == Elem(Id_r2, <<>>)

ElemR2NoText == Elem(Id_r2, <<None>>)

ElemR2TwoResults == Elem(Id_r2, <<StrCell(<<"F","a","i","l">>), StrCell(<<"p","a","s","s">>)>>)

ElemUpperR1 == Elem(Id_R1, <<StrCell(<<"p","a","s","s">>)>>)

-----------------------------------------------------------------------------
(* ValidateSpec: one table, one report.  The validator is constructed,     *)
(* the table is loaded and the report validated, in any order and any      *)
(* number of times.                                                        *)

RuleRowA ==
    [NUMBER |-> IntCell(1), RULE_ID |-> StrCell(<<"r","1">>),
     EXPECTED_RESULT |-> StrCell(<<"c","o","m","p","l","i","a","n","t">>),
     DESCRIPTION |-> StrCell(<<"a">>), PROFILE |-> StrCell(<<>>)]

RuleRowB ==
    [NUMBER |-> IntCell(2), RULE_ID |-> StrCell(<<"r","2">>),
     EXPECTED_RESULT |-> StrCell(<<"u","n","k","n","o","w","n">>),
     DESCRIPTION |-> StrCell(<<"b">>), PROFILE |-> StrCell(<<>>)]

RuleRowC ==
    [NUMBER |-> IntCell(3), RULE_ID |-> StrCell(<<"r","3">>),
     EXPECTED_RESULT |-> StrCell(<<"N","o","t"," ","F","o","u","n","d">>),
     DESCRIPTION |-> StrCell(<<"c">>), PROFILE |-> StrCell(<<>>)]

RuleRowD ==
    [NUMBER |-> IntCell(4), RULE_ID |-> StrCell(<<"r","1">>),
     EXPECTED_RESULT |-> StrCell(<<"n","o","t"," ","f","o","u","n","d">>),
     DESCRIPTION |-> StrCell(<<"d">>), PROFILE |-> StrCell(<<>>)]

RuleRows == {RuleRowA, RuleRowB, RuleRowC, RuleRowD}

ValidateSources == {Table("csv", HeaderFull, rs) : rs \in SeqsUpTo(RuleRows, MaxRows)}

ReportElems ==
    {ElemR1Pass, ElemR1NotFoundText, ElemR2NoResult, ElemR2NoText, ElemR2TwoResults}

\* every other letter in upper case
Alternating(s) == [i \in DOMAIN s |-> IF i % 2 = 1 THEN UpperChar(s[i]) ELSE s[i]]

Tokens == {RESULT_MAPPING[k][1] : k \in DOMAIN RESULT_MAPPING}

TokenTexts == UNION {{t, Upper(t), Alternating(t)} : t \in Tokens}

OtherTexts == {<<" ","p","a","s","s">>, <<"c","o","m","p","l","i","a","n","t">>,
               <<"P","a","s","s","e","d">>}

ValidateReports ==
    {Malformed}
    \cup {Report(es) : es \in SeqsUpTo(ReportElems, MaxElems)}
    \cup {Report(<<Elem(Id_r1, <<StrCell(t)>>)>>) : t \in TokenTexts \cup OtherTexts}
    \cup {Report(<<ElemUpperR1>>)}

ValidateInit ==
    /\ Constructed
    /\ source \in ValidateSources
    /\ xml_content \in ValidateReports
    /\ NoManager

ValidateNext ==
    \/ LoadRulesFromCsv(source, None)
    \/ ValidateXccdfReport(xml_content)

ValidateSpec == ValidateInit /\ [][ValidateNext]_vars

-----------------------------------------------------------------------------
(* LoadSpec: one file, loaded by the loader of its format with and         *)
(* without a profile filter, any number of times.                          *)

TableRows == {RowR1, RowR2, RowR3, RowBlank, RowBadNumber, RowZero}

Headers == {HeaderFull, HeaderPlain, HeaderProfileFirst, HeaderNoRuleId}

Formats == {"csv", "xlsx"}

LoadSources ==
    {MissingFile(f) : f \in Formats}
    \cup {Table(f, h, rs) : f \in Formats, h \in Headers,
                            rs \in SeqsUpTo(TableRows, MaxRows)}

Filters == {None, FilterCatI, FilterAbsent}

FilterNone == StrCell(<<"n","o","n","e">>)

LoadFilters == Filters \cup {FilterNone}

LoadInit ==
    /\ Constructed
    /\ source \in LoadSources
    /\ xml_content = NoReport
    /\ NoManager

LoadNext ==
    \/ \E profile_filter \in LoadFilters : LoadRulesFromCsv(source, profile_filter)
    \/ \E profile_filter \in LoadFilters : LoadRulesFromExcel(source, profile_filter)

LoadSpec == LoadInit /\ [][LoadNext]_vars

-----------------------------------------------------------------------------
(* Spec: the life of one validator.  Files are loaded, reports validated   *)
(* and the queries called in any order.                                    *)

RowQuote ==
    [NUMBER |-> IntCell(5), RULE_ID |-> StrCell(<<"r","'">>),
     EXPECTED_RESULT |-> StrCell(<<"f","i","x","e","d">>),
     DESCRIPTION |-> StrCell(<<"e">>), PROFILE |-> StrCell(<<>>)]

Files ==
    {Table("csv", HeaderFull, <<RowR1, RowR2>>),
     Table("csv", HeaderNoRuleId, <<RowR1>>),
     Table("csv", HeaderPlain, <<RowQuote>>),
     Table("xlsx", HeaderFull, <<RowR3, RowBlank, RowR1>>)}

Reports ==
    {Malformed,
     Report(<<>>),
     Report(<<ElemR2TwoResults, ElemR1Pass>>),
     Report(<<ElemR1NotFoundText, ElemR2NoText>>)}

Init ==
    /\ Constructed
    /\ source = NoSource
    /\ xml_content = NoReport
    /\ NoManager

Next ==
    \/ \E src \in Files, profile_filter \in Filters :
          LoadRulesFromCsv(src, profile_filter)
    \/ \E src \in Files, profile_filter \in Filters :
          LoadRulesFromExcel(src, profile_filter)
    \/ \E xml \in Reports : ValidateXccdfReport(xml)
    \/ GetValidationSummary
    \/ GetFailedRules
    \/ GetPassedRules

Spec == Init /\ [][Next]_vars

-----------------------------------------------------------------------------
(* CredSpec: one process, with some of the client libraries installed and  *)
(* some environment, in which a CredentialManager is constructed and asked *)
(* for credentials, any number of times.                                   *)

Libraries == {"boto3", "hvac", "cryptography"}

BackendNames == {"env", "aws", "vault", "encrypted", "json", "Vault", "file"}

BackendParams == {Absent, Text("")} \cup {Text(b) : b \in BackendNames}

EnvBackends == {Absent, Text(""), Text("env"), Text("aws"), Text("vault"),
                Text("encrypted"), Text("json"), Text("ENV")}

\* the process has all the machine's own variables and both keys; or an IP
\* of its own, a generic PASSWORD and no key; or a generic IP only
Environs ==
    {[CRED_BACKEND |-> b, VAULT_TOKEN |-> k, ENCRYPTION_KEY |-> k,
      specific |-> v[1], generic |-> v[2]] :
        b \in EnvBackends, k \in BOOLEAN,
        v \in {<<{"IP", "USERNAME", "PASSWORD"}, {}>>,
               <<{"IP"}, {"PASSWORD"}>>,
               <<{}, {"IP"}>>}}

CredInit ==
    /\ Constructed
    /\ source = NoSource
    /\ xml_content = NoReport
    /\ backend = ""
    /\ cred_call = NoCredCall
    /\ installed \in SUBSET Libraries
    /\ environ \in Environs

CredNext ==
    \/ \E param \in BackendParams : CredentialManagerInit(param)
    \/ GetVmCredentials

CredSpec == CredInit /\ [][CredNext]_vars

-----------------------------------------------------------------------------
(* Properties of validate_xccdf_report                                     *)

\* the last call was a validate_xccdf_report that returned; rules and
\* xml_content are then what it worked on
Returned == call.op = "validate_xccdf_report" /\ call.error = ""

\* some rule-result element of the report has this idref
Matched(rule_id) ==
    \E k \in DOMAIN xml_content.elems : xml_content.elems[k].idref = rule_id

Unmatched == {i \in DOMAIN rules : ~Matched(rules[i].rule_id)}

CountStatus(results, status) ==
    Cardinality({i \in DOMAIN results : results[i].status = status})

\* C1 as stated: after a validate_xccdf_report that returned, every verdict
\* has status 'PASS' if its actual string equals its expected string and
\* 'FAIL' otherwise, also when the expected string is 'NOT FOUND' or 'UNKNOWN'.
C1_PassIffActualIsExpected ==
    Returned =>
        \A i \in DOMAIN call.results :
            call.results[i].status =
                IF call.results[i].actual = call.results[i].expected
                THEN "PASS" ELSE "FAIL"

\* C1 amended: after a validate_xccdf_report that returned, every verdict has
\* status 'PASS' if the report has a rule-result with the rule's id and the
\* actual string equals the expected string, and 'FAIL' otherwise; a rule
\* missing from the report fails even when 'NOT FOUND' is what it expects.
C1_PassIffFoundAndActualIsExpected ==
    Returned =>
        \A i \in DOMAIN call.results :
            call.results[i].status =
                IF /\ Matched(call.results[i].rule_id)
                   /\ call.results[i].actual = call.results[i].expected
                THEN "PASS" ELSE "FAIL"

\* a verdict of a missing rule that expects 'NOT FOUND' and fails, beside a
\* verdict of a found rule without result element that expects 'UNKNOWN' and
\* passes
C1_Witness ==
    /\ Returned
    /\ \E i \in DOMAIN call.results :
          /\ ~Matched(call.results[i].rule_id)
          /\ call.results[i].expected = Str_NOT_FOUND
          /\ call.results[i].actual = Str_NOT_FOUND
          /\ call.results[i].status = "FAIL"
    /\ \E j \in DOMAIN call.results :
          /\ Matched(call.results[j].rule_id)
          /\ call.results[j].expected = Str_UNKNOWN
          /\ call.results[j].actual = Str_UNKNOWN
          /\ call.results[j].status = "PASS"

\* C2: after a validate_xccdf_report that returned, every loaded rule whose
\* rule_id is the idref of no rule-result element has a verdict with actual
\* 'NOT FOUND' and status 'FAIL', whatever it expects, and failed counts it.
C2_MissingRuleFails ==
    Returned =>
        /\ \A i \in Unmatched :
              /\ i \in DOMAIN call.results
              /\ call.results[i].actual = Str_NOT_FOUND
              /\ call.results[i].status = "FAIL"
        /\ call.failed >= Cardinality(Unmatched)

\* two missing rules, one expecting 'NOT FOUND' and one expecting something else
C2_Witness ==
    /\ Returned
    /\ \E i, j \in Unmatched :
          /\ rules[i].expected_result = Str_NOT_FOUND
          /\ rules[j].expected_result # Str_NOT_FOUND

\* C3: after a validate_xccdf_report that returned, passed + failed is the
\* number of loaded rules, passed the number of verdicts with status 'PASS'
\* and failed the number of verdicts with status 'FAIL'.
C3_CountsAddUp ==
    Returned =>
        /\ call.passed + call.failed = Len(rules)
        /\ call.passed = CountStatus(call.results, "PASS")
        /\ call.failed = CountStatus(call.results, "FAIL")

\* a passing rule counted beside a missing one
C3_Witness ==
    /\ Returned
    /\ call.passed >= 1
    /\ call.failed >= 1
    /\ Unmatched # {}

\* C4: a validate_xccdf_report that returned gives one verdict per loaded
\* rule, the i-th with the number, rule_id, description and expected_result
\* of the i-th rule, in whatever order the report lists the rule-results.
C4_VerdictsFollowRules ==
    Returned =>
        /\ Len(call.results) = Len(rules)
        /\ \A i \in DOMAIN rules :
              /\ call.results[i].number = rules[i].number
              /\ call.results[i].rule_id = rules[i].rule_id
              /\ call.results[i].description = rules[i].description
              /\ call.results[i].expected = rules[i].expected_result

\* the report lists the rule-result of the second rule before that of the first
C4_Witness ==
    /\ Returned
    /\ Len(rules) >= 2
    /\ rules[1].rule_id # rules[2].rule_id
    /\ \E k1, k2 \in DOMAIN xml_content.elems :
          /\ k1 < k2
          /\ xml_content.elems[k1].idref = rules[2].rule_id
          /\ xml_content.elems[k2].idref = rules[1].rule_id

\* the nine tokens and their labels, as the claim lists them
CanonicalLabels ==
    << << <<"p","a","s","s">>,
          <<"C","O","M","P","L","I","A","N","T">> >>,
       << <<"f","a","i","l">>,
          <<"N","O","T"," ","C","O","M","P","L","I","A","N","T">> >>,
       << <<"n","o","t","a","p","p","l","i","c","a","b","l","e">>,
          <<"N","O","T"," ","A","P","P","L","I","C","A","B","L","E">> >>,
       << <<"n","o","t","c","h","e","c","k","e","d">>,
          <<"N","O","T"," ","C","H","E","C","K","E","D">> >>,
       << <<"n","o","t","s","e","l","e","c","t","e","d">>,
          <<"N","O","T"," ","S","E","L","E","C","T","E","D">> >>,
       << <<"i","n","f","o","r","m","a","t","i","o","n","a","l">>,
          <<"I","N","F","O","R","M","A","T","I","O","N","A","L">> >>,
       << <<"e","r","r","o","r">>,
          <<"E","R","R","O","R">> >>,
       << <<"u","n","k","n","o","w","n">>,
          <<"U","N","K","N","O","W","N">> >>,
       << <<"f","i","x","e","d">>,
          <<"F","I","X","E","D">> >> >>

\* text is token in some letter case
SameIgnoringCase(text, token) ==
    /\ Len(text) = Len(token)
    /\ \A i \in DOMAIN token : text[i] \in {token[i], UpperChar(token[i])}

\* the rule-result that the rule's id finds: the first one with that idref
FirstMatch(rule_id, k) ==
    /\ k \in DOMAIN xml_content.elems
    /\ xml_content.elems[k].idref = rule_id
    /\ \A j \in 1..(k - 1) : xml_content.elems[j].idref # rule_id

\* the rule-result k has a result element whose text is token p in some case
HasTokenText(k, p) ==
    /\ xml_content.elems[k].results # <<>>
    /\ xml_content.elems[k].results[1].t = "str"
    /\ SameIgnoringCase(xml_content.elems[k].results[1].s, CanonicalLabels[p][1])

\* C5: for a rule whose rule-result has a result element with one of the nine
\* tokens as text, in any letter case, the verdict's actual is the label of
\* that token.
C5_TokenMapsToLabel ==
    Returned =>
        \A i \in DOMAIN rules, k \in DOMAIN xml_content.elems,
           p \in DOMAIN CanonicalLabels :
            (FirstMatch(rules[i].rule_id, k) /\ HasTokenText(k, p))
                => call.results[i].actual = CanonicalLabels[p][2]

\* a token written in mixed case, neither all lower nor all upper
C5_Witness ==
    /\ Returned
    /\ \E i \in DOMAIN rules, k \in DOMAIN xml_content.elems,
          p \in DOMAIN CanonicalLabels :
          /\ FirstMatch(rules[i].rule_id, k)
          /\ HasTokenText(k, p)
          /\ xml_content.elems[k].results[1].s # CanonicalLabels[p][1]
          /\ xml_content.elems[k].results[1].s # Upper(CanonicalLabels[p][1])
          /\ call.results[i].actual = CanonicalLabels[p][2]

\* C7: a validate_xccdf_report given the text of the validate call right
\* before it ends as that call did, with the same exception or the same
\* (passed, failed, verdicts); and no validate call changes the loaded rules.
C7_ValidateTwiceSame ==
    [][call'.op = "validate_xccdf_report" =>
          /\ rules' = rules
          /\ call'.repeated =>
                /\ call'.error = call.error
                /\ call'.passed = call.passed
                /\ call'.failed = call.failed
                /\ call'.results = call.results]_vars

\* a second call in a row that returned verdicts of both kinds
C7_Witness ==
    /\ Returned
    /\ call.repeated
    /\ call.passed >= 1
    /\ call.failed >= 1

-----------------------------------------------------------------------------
(* Properties of the validator's life                                      *)

\* the places of the verdicts with this status
Positions(results, status) == {i \in DOMAIN results : results[i].status = status}

\* sel lists the verdicts of results with this status, each once, in order
IsSelection(sel, results, status) ==
    LET P == Positions(results, status)
    IN  /\ Len(sel) = Cardinality(P)
        /\ \A i \in P : sel[Cardinality({j \in P : j <= i})] = results[i]

\* C6: get_failed_rules returns the retained verdicts with status 'FAIL' and
\* get_passed_rules those with status 'PASS', each in the retained order;
\* every retained verdict has one of the two statuses, so the two lists
\* share nothing and leave nothing out.
C6_FailedAndPassedSplit ==
    /\ call.op = "get_failed_rules" =>
          IsSelection(call.results, validation_results, "FAIL")
    /\ call.op = "get_passed_rules" =>
          IsSelection(call.results, validation_results, "PASS")
    /\ \A i \in DOMAIN validation_results :
          validation_results[i].status \in {"PASS", "FAIL"}

\* get_failed_rules picked some, not all, of the retained verdicts
C6_Witness ==
    /\ call.op = "get_failed_rules"
    /\ call.results # <<>>
    /\ Len(call.results) < Len(validation_results)

\* C8: validate_xccdf_report called while the rule list is empty raises
\* ValueError whatever the report text is, returns no verdicts and leaves the
\* retained verdicts and the rules as they were.
C8_NoRulesLoaded ==
    [][(call'.op = "validate_xccdf_report" /\ rules = <<>>) =>
          /\ call'.error = "ValueError"
          /\ call'.results = <<>>
          /\ validation_results' = validation_results
          /\ rules' = rules]_vars

\* the call was given a text that is no XML, after a load that returned no
\* rule, with verdicts retained from an earlier validation
C8_Witness ==
    /\ call.op = "validate_xccdf_report"
    /\ call.error = "ValueError"
    /\ rules = <<>>
    /\ ~xml_content.wellformed
    /\ validation_results # <<>>

\* C9: validate_xccdf_report called with rules loaded and a text that is not
\* well-formed XML raises ParseError, returns no verdict and leaves the rules
\* and the retained verdicts as they were.
C9_MalformedReport ==
    [][(call'.op = "validate_xccdf_report" /\ rules # <<>>
            /\ ~xml_content'.wellformed) =>
          /\ call'.error = "ParseError"
          /\ call'.results = <<>>
          /\ call'.passed = 0 /\ call'.failed = 0
          /\ rules' = rules
          /\ all_rules' = all_rules
          /\ validation_results' = validation_results]_vars

\* the failing call found verdicts retained from an earlier validation
C9_Witness ==
    /\ call.op = "validate_xccdf_report"
    /\ call.error = "ParseError"
    /\ rules # <<>>
    /\ validation_results # <<>>

-----------------------------------------------------------------------------
(* Properties of the loaders                                               *)

Loaders == {"load_rules_from_csv", "load_rules_from_excel"}

\* the header names every required column
HasRequiredColumns(header) ==
    \A c \in {"NUMBER", "RULE_ID", "EXPECTED_RESULT"} :
        \E i \in DOMAIN header : header[i] = c

\* the cell of a row under a column of the header
CellUnder(header, row, col) == row[CHOOSE i \in DOMAIN header : header[i] = col]

\* a data row with a cell under every column, a positive integer as NUMBER
\* (a number, or its digits as text), a rule id that is not blank and an
\* expected result that is text
WellFormedRow(header, row) ==
    /\ Len(row) = Len(header)
    /\ LET number == CellUnder(header, row, "NUMBER")
           rule_id == CellUnder(header, row, "RULE_ID")
           expected == CellUnder(header, row, "EXPECTED_RESULT")
       IN  /\ \/ number.t = "int" /\ number.n >= 1
              \/ number.t = "str" /\ IntParses(number.s) /\ IntOfStr(number.s) >= 1
           /\ rule_id.t = "str" /\ Strip(rule_id.s) # <<>>
           /\ expected.t = "str"

WellFormedSource(src) ==
    /\ src.exists
    /\ HasRequiredColumns(src.header)
    /\ \A i \in DOMAIN src.rows : WellFormedRow(src.header, src.rows[i])

\* C10: a load without profile filter of a table whose header has the
\* required columns and whose N data rows are well formed returns N rule
\* records in row order, each with the row's rule id trimmed, its expected
\* result trimmed and in upper case and its number as an integer.
C10_LoadsEveryRow ==
    (/\ call.op \in Loaders
     /\ call.profile_filter = None
     /\ WellFormedSource(source)) =>
        /\ call.error = ""
        /\ Len(call.rules) = Len(source.rows)
        /\ \A i \in DOMAIN source.rows :
              LET row == source.rows[i]
              IN  /\ call.rules[i].number =
                        PyInt(CellUnder(source.header, row, "NUMBER"))
                  /\ call.rules[i].rule_id =
                        Strip(CellUnder(source.header, row, "RULE_ID").s)
                  /\ call.rules[i].expected_result =
                        Upper(Strip(CellUnder(source.header, row, "EXPECTED_RESULT").s))

\* two texts with the same characters up to the case of their letters
EqualIgnoringCase(a, b) ==
    /\ Len(a) = Len(b)
    /\ \A i \in DOMAIN a : LowerChar(a[i]) = LowerChar(b[i])

\* the header names the column
HasColumn(header, col) == \E i \in DOMAIN header : header[i] = col

\* the row has a value in its NUMBER cell
HasNumber(header, row) ==
    LET number == CellUnder(header, row, "NUMBER")
    IN  number.t = "int" \/ (number.t = "str" /\ number.s # <<>>)

\* the PROFILE value of a row, trimmed: the empty text when the table has no
\* PROFILE column or the cell is empty
ProfileValue(header, row) ==
    IF HasColumn(header, "PROFILE") /\ CellUnder(header, row, "PROFILE").t = "str"
    THEN Strip(CellUnder(header, row, "PROFILE").s) ELSE <<>>

\* the row is one that a load with this filter returns
Selected(header, row, profile_filter) ==
    /\ HasNumber(header, row)
    /\ \/ profile_filter.t = "none"
       \/ EqualIgnoringCase(ProfileValue(header, row), profile_filter.s)

\* the rows of the table that a load with this filter returns, in order
RECURSIVE SelectedRows(_, _, _)
SelectedRows(header, rows, profile_filter) ==
    IF rows = <<>> THEN <<>>
    ELSE IF Selected(header, Head(rows), profile_filter)
    THEN <<Head(rows)>> \o SelectedRows(header, Tail(rows), profile_filter)
    ELSE SelectedRows(header, Tail(rows), profile_filter)

\* the load returned and the list it returned has one record for each of
\* these rows, in order
ReturnsRows(rows) ==
    /\ Len(call.rules) = Len(rows)
    /\ \A i \in DOMAIN rows :
          /\ call.rules[i].number = PyInt(CellUnder(source.header, rows[i], "NUMBER"))
          /\ call.rules[i].rule_id =
                Strip(CellUnder(source.header, rows[i], "RULE_ID").s)

\* C11: a load that returns, given a profile filter, returns the rows whose
\* PROFILE value equals the filter up to letter case, in source order, and the
\* empty list when no row has that profile; without a filter it returns every
\* row (of a spreadsheet, every row that has a NUMBER value).
C11_FilterSelectsByProfile ==
    (call.op \in Loaders /\ call.error = "") =>
        ReturnsRows(SelectedRows(source.header, source.rows, call.profile_filter))


\* C12: a load of an existing file, CSV or spreadsheet, with any number of
\* data rows, whose header lacks NUMBER, RULE_ID or EXPECTED_RESULT raises the
\* error of a malformed source (the ValueError that load_rules_from_excel
\* raises for a missing header) whichever the format is, returns no rule
\* record and leaves the loaded rules as they were.
C12_MissingColumnFails ==
    [][(/\ call'.op \in Loaders
        /\ source'.exists
        /\ ~HasRequiredColumns(source'.header)) =>
          /\ call'.error = "ValueError"
          /\ call'.rules = <<>>
          /\ rules' = rules
          /\ all_rules' = all_rules]_vars

-----------------------------------------------------------------------------
(* Properties of the derived queries and of the retained state             *)

Queries == {"get_validation_summary", "get_failed_rules", "get_passed_rules"}

\* C13: while no verdict is retained, get_validation_summary returns the
\* 'No validation results available' message and get_failed_rules and
\* get_passed_rules return the empty list, none of them raising; and no
\* query changes the rules, the unfiltered rules or the retained verdicts.
C13_QueriesWithoutResults ==
    [][call'.op \in Queries =>
          /\ call'.error = ""
          /\ rules' = rules
          /\ all_rules' = all_rules
          /\ validation_results' = validation_results
          /\ validation_results = <<>> =>
                /\ call'.op = "get_validation_summary" =>
                      /\ call'.summary.text = "No validation results available"
                      /\ call'.summary.lines = <<>>
                /\ call'.op \in {"get_failed_rules", "get_passed_rules"} =>
                      call'.results = <<>>]_vars

\* the summary was asked for with rules loaded and a validation that raised,
\* so that no verdict is retained yet
C13_Witness ==
    /\ call.op = "get_validation_summary"
    /\ call.summary.text = "No validation results available"
    /\ validation_results = <<>>
    /\ rules # <<>>
    /\ xml_content # NoReport

MatchMessage == [text |-> "Match", expected |-> <<>>, actual |-> <<>>]

NotFoundMessage ==
    [text |-> "Rule not found in XCCDF report", expected |-> <<>>, actual |-> <<>>]

MismatchMessage(expected, actual) ==
    [text |-> "Mismatch: Expected {expected}, Got {actual_result}",
     expected |-> expected, actual |-> actual]

\* C14 as stated: every verdict's message follows from its status and its
\* actual: the match message when the status is 'PASS', the rule-not-found
\* message whenever actual is 'NOT FOUND', and the mismatch message naming
\* expected and actual in every other case.
C14_MessageFollowsActual ==
    Returned =>
        \A i \in DOMAIN call.results :
            LET v == call.results[i]
            IN  v.message =
                    IF v.status = "PASS" THEN MatchMessage
                    ELSE IF v.actual = Str_NOT_FOUND THEN NotFoundMessage
                    ELSE MismatchMessage(v.expected, v.actual)

\* C14 amended: every verdict's message follows from whether the rule-result
\* was found and from its status: the rule-not-found message when the report
\* has no rule-result with the rule's id, the match message when it has one
\* and the status is 'PASS', and the mismatch message naming expected and
\* actual when it has one and the status is 'FAIL', also when actual is
\* 'NOT FOUND' because that is what the result text upper-cases to.
C14_MessageFollowsLookup ==
    Returned =>
        \A i \in DOMAIN call.results :
            LET v == call.results[i]
            IN  v.message =
                    IF ~Matched(v.rule_id) THEN NotFoundMessage
                    ELSE IF v.status = "PASS" THEN MatchMessage
                    ELSE MismatchMessage(v.expected, v.actual)

\* the result text of a found rule upper-cases to 'NOT FOUND': one rule
\* expects something else and gets the mismatch message, another expects
\* 'NOT FOUND' and gets the match message
C14_Witness ==
    /\ Returned
    /\ \E i, j \in DOMAIN call.results :
          /\ Matched(call.results[i].rule_id)
          /\ call.results[i].actual = Str_NOT_FOUND
          /\ call.results[i].status = "FAIL"
          /\ call.results[i].message =
                MismatchMessage(call.results[i].expected, Str_NOT_FOUND)
          /\ Matched(call.results[j].rule_id)
          /\ call.results[j].actual = Str_NOT_FOUND
          /\ call.results[j].status = "PASS"
          /\ call.results[j].message = MatchMessage

\* C15: the rule list changes only by a load that returns, which makes it the
\* list that load returned, whatever was loaded before and with or without a
\* filter; a load that raises and every other call leave it as it was; and a
\* validate_xccdf_report that returns gives its verdicts for that list, one
\* per rule.  Hence the list validated is always the one the most recent
\* load that returned gave back.
C15_LastLoadIsValidated ==
    [][/\ (call'.op \in Loaders /\ call'.error = "") => rules' = call'.rules
       /\ (call'.op \in Loaders /\ call'.error # "") => rules' = rules
       /\ call'.op \notin Loaders => rules' = rules
       /\ (call'.op = "validate_xccdf_report" /\ call'.error = "") =>
             /\ Len(call'.results) = Len(rules)
             /\ \A i \in DOMAIN rules :
                   /\ call'.results[i].number = rules[i].number
                   /\ call'.results[i].rule_id = rules[i].rule_id]_vars

\* a load with a filter returned fewer rules than an earlier load, whose
\* verdicts are still retained, and the rule list is now the shorter one
C15_Witness ==
    /\ call.op \in Loaders
    /\ call.error = ""
    /\ call.profile_filter # None
    /\ call.rules # <<>>
    /\ rules = call.rules
    /\ Len(validation_results) > Len(rules)

\* C16: the retained verdicts change only by a validate_xccdf_report that
\* returns, which replaces them by the verdicts it returns; loads that return
\* or raise, validations that raise and the queries leave them as they were,
\* so that after other rules are loaded the queries still answer from the
\* verdicts of the last validation.
C16_VerdictsKeptUntilValidated ==
    [][/\ (call'.op = "validate_xccdf_report" /\ call'.error = "") =>
             validation_results' = call'.results
       /\ ~(call'.op = "validate_xccdf_report" /\ call'.error = "") =>
             validation_results' = validation_results
       /\ call'.op = "get_failed_rules" =>
             call'.results = SelectStatus(validation_results, "FAIL")
       /\ call'.op = "get_passed_rules" =>
             call'.results = SelectStatus(validation_results, "PASS")
       /\ call'.op = "get_validation_summary" =>
             call'.summary.total = Len(validation_results)]_vars

\* get_failed_rules answered with the verdict of a rule that is no longer
\* loaded
C16_Witness ==
    /\ call.op = "get_failed_rules"
    /\ rules # <<>>
    /\ \E i \in DOMAIN call.results :
          \A j \in DOMAIN rules : rules[j].rule_id # call.results[i].rule_id

-----------------------------------------------------------------------------
(* Properties of the result text                                           *)

\* the text is one of the nine tokens in some letter case
IsTokenText(text) ==
    \E p \in DOMAIN CanonicalLabels : SameIgnoringCase(text, CanonicalLabels[p][1])

\* the character data of a result element: the empty text when it has none
RawText(cell) == IF cell.t = "str" THEN cell.s ELSE <<>>

\* the call was a validation with rules loaded, of a well-formed report, and
\* every rule id can be looked up
Evaluated ==
    /\ call.op = "validate_xccdf_report"
    /\ rules # <<>>
    /\ xml_content.wellformed
    /\ \A i \in DOMAIN rules : \A c \in DOMAIN rules[i].rule_id :
          rules[i].rule_id[c] # "'"

\* C17: a validation of a well-formed report with rules loaded does not raise
\* on account of a result element's content and returns a verdict for every
\* rule; for a rule whose rule-result has a result element whose text is none
\* of the nine tokens, an empty or missing text included, actual is the text
\* in upper case and the status follows from comparing it with expected.
C17_ResultTextNeverFails ==
    Evaluated =>
        /\ call.error = ""
        /\ Len(call.results) = Len(rules)
        /\ \A i \in DOMAIN rules, k \in DOMAIN xml_content.elems :
              (/\ FirstMatch(rules[i].rule_id, k)
               /\ xml_content.elems[k].results # <<>>
               /\ ~IsTokenText(RawText(xml_content.elems[k].results[1]))) =>
                  /\ call.results[i].actual =
                        Upper(RawText(xml_content.elems[k].results[1]))
                  /\ call.results[i].status =
                        IF call.results[i].actual = call.results[i].expected
                        THEN "PASS" ELSE "FAIL"

-----------------------------------------------------------------------------
(* Properties of the spreadsheet loader                                    *)

\* the NUMBER cell holds an integer, as a number or as its digits
NumberIsInteger(header, row) ==
    LET number == CellUnder(header, row, "NUMBER")
    IN  number.t = "int" \/ (number.t = "str" /\ IntParses(number.s))

\* a sheet with the required columns in which every row either has no NUMBER
\* value or has an integer as NUMBER and a text as RULE_ID
SheetWithBlankRows(src) ==
    /\ src.fmt = "xlsx"
    /\ src.exists
    /\ HasRequiredColumns(src.header)
    /\ \A i \in DOMAIN src.rows :
          HasNumber(src.header, src.rows[i]) =>
              /\ NumberIsInteger(src.header, src.rows[i])
              /\ CellUnder(src.header, src.rows[i], "RULE_ID").t = "str"

\* C18: a spreadsheet load without filter skips a data row exactly when its
\* NUMBER cell is empty: it does not raise, and it returns one record for
\* every row that has a NUMBER value, whatever the integer and wherever the
\* NUMBER column stands in the header, in the order of the rows.
C18_SkipsRowsWithoutNumber ==
    (/\ call.op = "load_rules_from_excel"
     /\ call.profile_filter = None
     /\ SheetWithBlankRows(source)) =>
        /\ call.error = ""
        /\ ReturnsRows(SelectedRows(source.header, source.rows, None))

-----------------------------------------------------------------------------
(* Properties of the credential manager                                    *)

DocumentedBackends == {"env", "aws", "vault", "encrypted", "json"}

\* the client library a backend needs, "" when it needs none
LibraryOf(b) ==
    CASE b = "aws" -> "boto3"
      [] b = "vault" -> "hvac"
      [] b = "encrypted" -> "cryptography"
      [] OTHER -> ""

\* the retrieval routine of a documented backend
RoutineOf(b) ==
    CASE b = "env" -> "_get_from_env"
      [] b = "aws" -> "_get_from_aws"
      [] b = "vault" -> "_get_from_vault"
      [] b = "encrypted" -> "_get_from_encrypted_file"
      [] OTHER -> "_get_from_json"

\* the constructor parameter if one was given (None and '' give none), else
\* the CRED_BACKEND environment variable, else 'env'
Configured ==
    IF cred_call.backend_param.given /\ cred_call.backend_param.name # ""
    THEN cred_call.backend_param.name
    ELSE IF environ.CRED_BACKEND.given THEN environ.CRED_BACKEND.name
    ELSE "env"

\* a documented backend whose client library, if it needs one, is installed
Usable(b) ==
    /\ b \in DocumentedBackends
    /\ LibraryOf(b) = "" \/ LibraryOf(b) \in installed

\* C19: get_vm_credentials runs the retrieval routine of the configured
\* backend when that is one of 'env', 'aws', 'vault', 'encrypted' and 'json'
\* and its client library, if it needs one, is installed; otherwise, and only
\* then, it raises ValueError 'Unsupported backend'.
C19_DispatchesToConfiguredBackend ==
    cred_call.op = "get_vm_credentials" =>
        IF Usable(Configured)
        THEN /\ cred_call.routine = RoutineOf(Configured)
             /\ cred_call.error # "ValueError: Unsupported backend"
        ELSE /\ cred_call.routine = ""
             /\ cred_call.error = "ValueError: Unsupported backend"

=============================================================================
